---- MODULE Spec2Model ----
(***************************************************************************)
(* The autoregressive generation loop of src/candle-inf/base-inf.rs        *)
(* (fn main, lines 205-298): prompt tokenisation result, sampler set-up,   *)
(* the for loop over 0..num_tokens with its forward / repeat-penalty /     *)
(* sample / decode / print pipeline, and the statistics epilogue.          *)
(*                                                                         *)
(* The library calls (Llama::forward, apply_repeat_penalty,                *)
(* LogitsProcessor::sample, Tokenizer::decode, stdout flush, Tensor::new)  *)
(* are collaborators outside the repository.  Each is modelled as an       *)
(* arbitrary but DETERMINISTIC function of its inputs: the first time an   *)
(* input is seen the result is chosen freely and recorded in `oracle`,     *)
(* and the same input later gets the recorded result.  Logits are kept as  *)
(* symbolic terms naming the inputs they were computed from.               *)
(***************************************************************************)
EXTENDS Integers, Sequences, FiniteSets, TLC

VARIABLES
    args,              \* the parsed command line (Args) with the tokenised prompt
    prompt_tokens,     \* Vec<u32> of line 210
    tokens_tensor,     \* the input chunk fed to the next forward call (line 214 / 278)
    logits_processor,  \* the sampler: seed, sampling strategy, PRNG draws so far
    cache,             \* model::Cache: the (chunk, index_pos) pairs forward has absorbed
    generated_tokens,  \* line 240
    pos,               \* line 241
    index,             \* the for-loop variable of line 243
    stdout,            \* the text fragments printed by line 272, in order
    pc,                \* "loop" | "stats" (after the loop, Ok(())) | "err" (a ? returned Err)
    broke,             \* TRUE iff the break of line 270 was taken ("[End of generation]")
    err,               \* which fallible call returned Err, "none" otherwise
    trace,             \* one record per loop iteration started: what each call was given
    oracle,            \* the collaborators' answers seen so far, per collaborator
    run,               \* 1 in the first execution of the program, 2 in a repeated one
    first              \* what the first execution produced (set when the second starts)

vars == <<args, prompt_tokens, tokens_tensor, logits_processor, cache,
          generated_tokens, pos, index, stdout, pc, broke, err, trace,
          oracle, run, first>>

(***************************************************************************)
(* Bounds of the model.                                                    *)
(***************************************************************************)
MaxTokens == 3      \* largest --num-tokens explored
MaxPromptLen == 2   \* longest tokenised prompt explored
MaxLastN == 2       \* largest --repeat-last-n explored

PromptVocab == {5, 9}
SampleVocab == {2, 3, 7, 9}
Seeds == {299792458}

None == <<>>
Some(x) == <<x>>

(***************************************************************************)
(* Text is a sequence of characters.                                       *)
(***************************************************************************)
EOS_TOKEN == <<"<", "/", "s", ">">>

\* str::contains
Contains(text, pat) ==
    \E i \in 1..(Len(text) - Len(pat) + 1) :
        SubSeq(text, i, i + Len(pat) - 1) = pat

\* Line 268 testing for a marker the tokenizer never produces.
IsEos_WrongMarker(text) ==
    LET marker == <<"<", "e", "o", "s", ">">>
    IN  text = marker \/ Contains(text, marker)

\* Line 268 with the contains test left out.
IsEos_EqualOnly(text) == text = EOS_TOKEN

\* The condition of line 268.
IsEos(text) == text = EOS_TOKEN \/ Contains(text, EOS_TOKEN)

\* tokenizer.decode(&[next_token], true).ok(): a fixed stub vocabulary.
\* Token 2 is the end-of-sequence token, token 9 a piece whose text embeds
\* the marker, token 3 a token whose decoding fails, token 7 plain text.
Decode(token) ==
    CASE token = 2 -> Some(EOS_TOKEN)
      [] token = 9 -> Some(<<"c">> \o EOS_TOKEN)
      [] token = 3 -> None
      [] token = 5 -> Some(<<"a">>)
      [] OTHER     -> Some(<<"b">>)

(***************************************************************************)
(* Command line.  Floats are kept in tenths: repeat_penalty 10 is 1.0.     *)
(***************************************************************************)
Unit == 10

RECURSIVE SeqsUpTo(_, _)
SeqsUpTo(S, n) ==
    IF n = 0 THEN {<<>>}
    ELSE LET shorter == SeqsUpTo(S, n - 1)
         IN  shorter \cup {Append(s, x) : s \in {t \in shorter : Len(t) = n - 1}, x \in S}

Prompts == {p \in SeqsUpTo(PromptVocab, MaxPromptLen) : Len(p) >= 1}

ArgsSet ==
    {a \in [prompt : Prompts,
            num_tokens : 0..MaxTokens,
            repeat_penalty : {Unit, Unit + 1},
            repeat_last_n : 0..MaxLastN,
            seed : Seeds,
            temperature : {0, 8},
            top_k : {None, Some(1)},
            top_p : {None, Some(9)}] :
        a.temperature = 0 => (a.top_k = None /\ a.top_p = None)}

\* Lines 218-231.
SamplingOf(temperature, top_k, top_p) ==
    IF temperature <= 0 THEN [kind |-> "ArgMax", k |-> None, p |-> None, temperature |-> None]
    ELSE CASE top_k = None /\ top_p = None ->
                [kind |-> "All", k |-> None, p |-> None, temperature |-> Some(temperature)]
           [] top_k # None /\ top_p = None ->
                [kind |-> "TopK", k |-> top_k, p |-> None, temperature |-> Some(temperature)]
           [] top_k = None /\ top_p # None ->
                [kind |-> "TopP", k |-> None, p |-> top_p, temperature |-> Some(temperature)]
           [] OTHER ->
                [kind |-> "TopKThenTopP", k |-> top_k, p |-> top_p, temperature |-> Some(temperature)]

\* Line 232 seeding from something that differs between executions (here:
\* how many library calls the environment has served) instead of args.seed
\* alone.
FromSampling_AmbientSeed(seed, sampling) ==
    [seed |-> seed + Cardinality(oracle.forward), sampling |-> sampling, draws |-> 0]

\* LogitsProcessor::from_sampling(args.seed, sampling), line 232: the PRNG
\* is seeded here, once; draws counts the random draws taken since.
FromSampling(seed, sampling) ==
    [seed |-> seed, sampling |-> sampling, draws |-> 0]

\* The state between line 241 and the first evaluation of the loop header.
LoopEntry(a) ==
    /\ prompt_tokens' = a.prompt
    /\ tokens_tensor' = a.prompt
    /\ logits_processor' =
          FromSampling(a.seed, SamplingOf(a.temperature, a.top_k, a.top_p))
    /\ cache' = <<>>
    /\ generated_tokens' = 0
    /\ pos' = 0
    /\ index' = 0
    /\ stdout' = <<>>
    /\ pc' = "loop"
    /\ broke' = FALSE
    /\ err' = "none"
    /\ trace' = <<>>

NoAnswers == [forward |-> {}, penalty |-> {}, sample |-> {}, flush |-> {}, tensor |-> {}]

Init ==
    /\ args \in ArgsSet
    /\ oracle = NoAnswers
    /\ run = 1
    /\ first = None
    /\ prompt_tokens = args.prompt
    /\ tokens_tensor = args.prompt
    /\ logits_processor =
          FromSampling(args.seed, SamplingOf(args.temperature, args.top_k, args.top_p))
    /\ cache = <<>>
    /\ generated_tokens = 0
    /\ pos = 0
    /\ index = 0
    /\ stdout = <<>>
    /\ pc = "loop"
    /\ broke = FALSE
    /\ err = "none"
    /\ trace = <<>>


(***************************************************************************)
(* Collaborators.                                                          *)
(***************************************************************************)
\* What a collaborator answers to `key`: its recorded answer if it has been
\* asked before, any of `answers` otherwise.
Ask(memo, key, answers) ==
    LET hits == {p \in memo : p[1] = key}
    IN  IF hits = {} THEN answers ELSE {p[2] : p \in hits}

\* model::Cache after llama.forward(&tokens_tensor, pos, &mut cache), line 247.
CacheAfter == Append(cache, [tokens |-> tokens_tensor, index_pos |-> pos])

\* The logits of lines 247-248, as the term forward(cache, tokens_tensor, pos).
Forward == [fwd |-> CacheAfter, pen |-> None]

\* usize::saturating_sub
SaturatingSub(a, b) == IF a >= b THEN a - b ELSE 0

\* Lines 254 and 258 over the prompt followed by the tokens generated so
\* far (a sliding window over the history).
PenaltyWindow_SlidingHistory ==
    LET history == prompt_tokens \o [i \in 1..Len(trace) |-> trace[i].next_token[1]]
        start_at == SaturatingSub(Len(history), args.repeat_last_n)
    IN  SubSeq(history, start_at + 1, Len(history))

\* Lines 254 and 258: &prompt_tokens[start_at..]
PenaltyWindow ==
    LET start_at == SaturatingSub(Len(prompt_tokens), args.repeat_last_n)
    IN  SubSeq(prompt_tokens, start_at + 1, Len(prompt_tokens))

\* candle_transformers::utils::apply_repeat_penalty(&logits, penalty, context),
\* as the term naming its arguments.
ApplyRepeatPenalty(logits, penalty, context) ==
    [logits EXCEPT !.pen = Some([penalty |-> penalty, context |-> context])]

\* Line 251, negated: the else branch is taken.
PenaltyApplies == args.repeat_penalty # Unit

\* The logits bound at line 251: what the sampler is given.
Penalised ==
    IF PenaltyApplies
    THEN ApplyRepeatPenalty(Forward, args.repeat_penalty, PenaltyWindow)
    ELSE Forward

\* What logits_processor.sample(&logits) depends on: the logits, the
\* strategy and, unless the strategy is ArgMax, the PRNG state.
SampleKey ==
    [logits |-> Penalised,
     sampling |-> logits_processor.sampling,
     rng |-> IF logits_processor.sampling.kind = "ArgMax" THEN None
             ELSE Some(<<logits_processor.seed, logits_processor.draws>>)]

\* The sampler after a successful sample call: the PRNG has moved on by one
\* draw (ArgMax draws nothing); it keeps its seed.
AfterSample(lp) ==
    IF lp.sampling.kind = "ArgMax" THEN lp ELSE [lp EXCEPT !.draws = @ + 1]

SampleAnswers == {None} \cup {Some(t) : t \in SampleVocab}

ForwardOk == TRUE \in Ask(oracle.forward, CacheAfter, BOOLEAN)
ForwardErr == FALSE \in Ask(oracle.forward, CacheAfter, BOOLEAN)
PenaltyOk == PenaltyApplies => TRUE \in Ask(oracle.penalty, Penalised, BOOLEAN)
PenaltyErr == PenaltyApplies /\ FALSE \in Ask(oracle.penalty, Penalised, BOOLEAN)
Samples(t) == Some(t) \in Ask(oracle.sample, SampleKey, SampleAnswers)
SampleErr == None \in Ask(oracle.sample, SampleKey, SampleAnswers)
FlushOk(out) == TRUE \in Ask(oracle.flush, out, BOOLEAN)
FlushErr(out) == FALSE \in Ask(oracle.flush, out, BOOLEAN)
TensorKey(t) == <<t, index>>
TensorOk(t) == TRUE \in Ask(oracle.tensor, TensorKey(t), BOOLEAN)
TensorErr(t) == FALSE \in Ask(oracle.tensor, TensorKey(t), BOOLEAN)

ToldForward(o, ok) == [o EXCEPT !.forward = @ \cup {<<CacheAfter, ok>>}]
ToldPenalty(o, ok) ==
    IF PenaltyApplies THEN [o EXCEPT !.penalty = @ \cup {<<Penalised, ok>>}] ELSE o
ToldSample(o, ans) == [o EXCEPT !.sample = @ \cup {<<SampleKey, ans>>}]
ToldFlush(o, out, ok) == [o EXCEPT !.flush = @ \cup {<<out, ok>>}]
ToldTensor(o, t, ok) == [o EXCEPT !.tensor = @ \cup {<<TensorKey(t), ok>>}]

\* The oracle after forward, penalty and sample have answered (sample: ans).
ToldPipeline(ans) == ToldSample(ToldPenalty(ToldForward(oracle, TRUE), TRUE), ans)

(***************************************************************************)
(* The record of one loop iteration.                                       *)
(***************************************************************************)
StepRec(context, sampled_from, next_token, text, printed, outcome, cursor) ==
    [input |-> tokens_tensor, index_pos |-> pos,
     context |-> context, sampled_from |-> sampled_from,
     next_token |-> next_token, text |-> text, printed |-> printed,
     outcome |-> outcome, cursor |-> cursor]

ContextGiven == IF PenaltyApplies THEN Some(PenaltyWindow) ELSE None

\* The record of an iteration whose sample call returned token t; cursor is
\* the value of pos the iteration leaves behind.
SampledRec(t, printed, outcome, cursor) ==
    StepRec(ContextGiven, Some(Penalised), Some(t), Decode(t), printed, outcome, cursor)

(***************************************************************************)
(* The loop: for index in 0..args.num_tokens, line 243.                    *)
(***************************************************************************)
\* Line 243 with a range one short, 0..args.num_tokens - 1.
InLoop_OneShort == pc = "loop" /\ index + 1 < args.num_tokens

\* Line 243 with an inclusive range, 0..=args.num_tokens.
InLoop_Inclusive == pc = "loop" /\ index <= args.num_tokens


InLoop == pc = "loop" /\ index < args.num_tokens

\* Line 277 advancing by one token whatever was fed.
AdvancedPos_ByOne == pos + 1

\* Line 277: pos += tokens_tensor.dim(1)?
AdvancedPos == pos + Len(tokens_tensor)

\* Line 278 feeding the history again: the new token is appended to the chunk.
NextChunk_Append(next_token) == Append(tokens_tensor, next_token)

\* Line 278: Tensor::new(&[next_token], &device)?.unsqueeze(0)?
NextChunk(next_token) == <<next_token>>

\* Line 247 or 248 returns Err.
StepForwardErr ==
    /\ InLoop
    /\ ForwardErr
    /\ oracle' = ToldForward(oracle, FALSE)
    /\ trace' = Append(trace, StepRec(None, None, None, None, FALSE, "forward_err", pos))
    /\ pc' = "err"
    /\ err' = "forward"
    /\ UNCHANGED <<args, prompt_tokens, tokens_tensor, logits_processor, cache,
                   generated_tokens, pos, index, stdout, broke, run, first>>

\* Line 259 returns Err.
StepPenaltyErr ==
    /\ InLoop
    /\ ForwardOk
    /\ PenaltyErr
    /\ oracle' = ToldPenalty(ToldForward(oracle, TRUE), FALSE)
    /\ cache' = CacheAfter
    /\ trace' = Append(trace, StepRec(ContextGiven, None, None, None, FALSE, "penalty_err", pos))
    /\ pc' = "err"
    /\ err' = "penalty"
    /\ UNCHANGED <<args, prompt_tokens, tokens_tensor, logits_processor,
                   generated_tokens, pos, index, stdout, broke, run, first>>

\* Line 263 with the error swallowed: the iteration is abandoned and the
\* loop tries again.
StepSampleErr_Retry ==
    /\ InLoop
    /\ ForwardOk
    /\ PenaltyOk
    /\ SampleErr
    /\ oracle' = ToldPipeline(None)
    /\ cache' = CacheAfter
    /\ trace' = Append(trace,
                       StepRec(ContextGiven, Some(Penalised), None, None, FALSE,
                               "sample_err", pos))
    /\ index' = index + 1
    /\ UNCHANGED <<args, prompt_tokens, tokens_tensor, logits_processor,
                   generated_tokens, pos, stdout, pc, broke, err, run, first>>

\* Line 263 returns Err.
StepSampleErr ==
    /\ InLoop
    /\ ForwardOk
    /\ PenaltyOk
    /\ SampleErr
    /\ oracle' = ToldPipeline(None)
    /\ cache' = CacheAfter
    /\ trace' = Append(trace,
                       StepRec(ContextGiven, Some(Penalised), None, None, FALSE,
                               "sample_err", pos))
    /\ pc' = "err"
    /\ err' = "sample"
    /\ UNCHANGED <<args, prompt_tokens, tokens_tensor, logits_processor,
                   generated_tokens, pos, index, stdout, broke, run, first>>

\* Lines 264-271 with the increment of line 264 moved after the eos check:
\* the token that ends the generation is not counted.
StepEos_CountAfterCheck ==
    /\ InLoop
    /\ ForwardOk
    /\ PenaltyOk
    /\ \E t \in SampleVocab :
        /\ Samples(t)
        /\ Decode(t) # None
        /\ IsEos(Decode(t)[1])
        /\ oracle' = ToldPipeline(Some(t))
        /\ trace' = Append(trace, SampledRec(t, FALSE, "eos", pos))
    /\ cache' = CacheAfter
    /\ logits_processor' = AfterSample(logits_processor)
    /\ broke' = TRUE
    /\ pc' = "stats"
    /\ UNCHANGED <<args, prompt_tokens, tokens_tensor, generated_tokens, pos, index,
                   stdout, err, run, first>>

\* Lines 267-271: the decoded text is or contains EOS_TOKEN; break.
StepEos ==
    /\ InLoop
    /\ ForwardOk
    /\ PenaltyOk
    /\ \E t \in SampleVocab :
        /\ Samples(t)
        /\ Decode(t) # None
        /\ IsEos(Decode(t)[1])
        /\ oracle' = ToldPipeline(Some(t))
        /\ trace' = Append(trace, SampledRec(t, FALSE, "eos", pos))
    /\ cache' = CacheAfter
    /\ logits_processor' = AfterSample(logits_processor)
    /\ generated_tokens' = generated_tokens + 1
    /\ broke' = TRUE
    /\ pc' = "stats"
    /\ UNCHANGED <<args, prompt_tokens, tokens_tensor, pos, index, stdout, err,
                   run, first>>

\* Lines 272-273: the text is printed and the flush returns Err.
StepFlushErr ==
    /\ InLoop
    /\ ForwardOk
    /\ PenaltyOk
    /\ \E t \in SampleVocab :
        /\ Samples(t)
        /\ Decode(t) # None
        /\ ~IsEos(Decode(t)[1])
        /\ FlushErr(Append(stdout, Decode(t)[1]))
        /\ oracle' = ToldFlush(ToldPipeline(Some(t)), Append(stdout, Decode(t)[1]), FALSE)
        /\ stdout' = Append(stdout, Decode(t)[1])
        /\ trace' = Append(trace, SampledRec(t, TRUE, "flush_err", pos))
    /\ cache' = CacheAfter
    /\ logits_processor' = AfterSample(logits_processor)
    /\ generated_tokens' = generated_tokens + 1
    /\ pc' = "err"
    /\ err' = "flush"
    /\ UNCHANGED <<args, prompt_tokens, tokens_tensor, pos, index, broke, run, first>>

\* What line 272 leaves on stdout for token t: its text, when it decodes.
Printed(t) == IF Decode(t) = None THEN stdout ELSE Append(stdout, Decode(t)[1])

\* The token passes the check of lines 267-274 without break or error.
PassesCheck(t) ==
    /\ Samples(t)
    /\ Decode(t) # None => (~IsEos(Decode(t)[1]) /\ FlushOk(Printed(t)))

ToldChecked(t) ==
    IF Decode(t) = None THEN ToldPipeline(Some(t))
    ELSE ToldFlush(ToldPipeline(Some(t)), Printed(t), TRUE)

\* Line 277 done, line 278 returns Err.
StepTensorErr ==
    /\ InLoop
    /\ ForwardOk
    /\ PenaltyOk
    /\ \E t \in SampleVocab :
        /\ PassesCheck(t)
        /\ TensorErr(t)
        /\ oracle' = ToldTensor(ToldChecked(t), t, FALSE)
        /\ stdout' = Printed(t)
        /\ trace' = Append(trace, SampledRec(t, Decode(t) # None, "tensor_err", AdvancedPos))
    /\ cache' = CacheAfter
    /\ logits_processor' = AfterSample(logits_processor)
    /\ generated_tokens' = generated_tokens + 1
    /\ pos' = AdvancedPos
    /\ pc' = "err"
    /\ err' = "tensor"
    /\ UNCHANGED <<args, prompt_tokens, tokens_tensor, index, broke, run, first>>

\* A whole iteration, lines 244-284, that reaches the end of the loop body
\* having printed the token's text.
StepEmit ==
    /\ InLoop
    /\ ForwardOk
    /\ PenaltyOk
    /\ \E t \in SampleVocab :
        /\ PassesCheck(t)
        /\ Decode(t) # None
        /\ TensorOk(t)
        /\ oracle' = ToldTensor(ToldChecked(t), t, TRUE)
        /\ stdout' = Printed(t)
        /\ trace' = Append(trace, SampledRec(t, TRUE, "ok", AdvancedPos))
        /\ tokens_tensor' = NextChunk(t)
    /\ cache' = CacheAfter
    /\ logits_processor' = AfterSample(logits_processor)
    /\ generated_tokens' = generated_tokens + 1
    /\ pos' = AdvancedPos
    /\ index' = index + 1
    /\ UNCHANGED <<args, prompt_tokens, pc, broke, err, run, first>>

\* A whole iteration whose token does not decode (.ok() is None): nothing is
\* printed and the loop goes on.
StepUndecodable ==
    /\ InLoop
    /\ ForwardOk
    /\ PenaltyOk
    /\ \E t \in SampleVocab :
        /\ PassesCheck(t)
        /\ Decode(t) = None
        /\ TensorOk(t)
        /\ oracle' = ToldTensor(ToldChecked(t), t, TRUE)
        /\ trace' = Append(trace, SampledRec(t, FALSE, "ok", AdvancedPos))
        /\ tokens_tensor' = NextChunk(t)
    /\ cache' = CacheAfter
    /\ logits_processor' = AfterSample(logits_processor)
    /\ generated_tokens' = generated_tokens + 1
    /\ pos' = AdvancedPos
    /\ index' = index + 1
    /\ UNCHANGED <<args, prompt_tokens, stdout, pc, broke, err, run, first>>

\* The range 0..args.num_tokens is exhausted: lines 287-297.
LoopExit ==
    /\ pc = "loop"
    /\ ~InLoop
    /\ pc' = "stats"
    /\ UNCHANGED <<args, prompt_tokens, tokens_tensor, logits_processor, cache,
                   generated_tokens, pos, index, stdout, broke, err, trace,
                   oracle, run, first>>

Next ==
    \/ StepForwardErr
    \/ StepPenaltyErr
    \/ StepSampleErr
    \/ StepEos
    \/ StepFlushErr
    \/ StepTensorErr
    \/ StepEmit
    \/ StepUndecodable
    \/ LoopExit

Spec == Init /\ [][Next]_vars

\* The call returns: every step of the loop is ordinary blocking computation.
FairSpec == Spec /\ WF_vars(Next)

\* How the generation ended.
StopReason ==
    CASE pc = "err" -> "error"
      [] pc = "stats" /\ broke -> "eos"
      [] pc = "stats" /\ ~broke -> "max_tokens"
      [] OTHER -> "none"

(***************************************************************************)
(* A second, independent execution of the program with the same command    *)
(* line, tokenizer and model: the collaborators answer as `oracle` says.   *)
(***************************************************************************)
Rerun ==
    /\ run = 1
    /\ pc # "loop"
    /\ first' = Some([stdout |-> stdout, reason |-> StopReason,
                      generated_tokens |-> generated_tokens])
    /\ run' = 2
    /\ LoopEntry(args)
    /\ UNCHANGED <<args, oracle>>

NextTwo == Next \/ Rerun

SpecTwoRuns == Init /\ [][NextTwo]_vars

(***************************************************************************)
(* Properties.                                                             *)
(***************************************************************************)
\* The texts of the records of tr that were printed, in order.
RECURSIVE TextsPrinted(_)
TextsPrinted(tr) ==
    IF tr = <<>> THEN <<>>
    ELSE LET r == tr[Len(tr)]
             before == TextsPrinted(SubSeq(tr, 1, Len(tr) - 1))
         IN  IF r.printed THEN Append(before, r.text[1]) ELSE before

\* The text of record r is or contains the end-of-sequence marker.
HasEosText(r) ==
    /\ r.text # None
    /\ \E i \in 1..Len(r.text[1]) :
          \E j \in i..Len(r.text[1]) : SubSeq(r.text[1], i, j) = EOS_TOKEN

\* The number of tokens fed by the first n forward calls.
RECURSIVE Fed(_)
Fed(n) == IF n = 0 THEN 0 ELSE Fed(n - 1) + Len(cache[n].tokens)

\* C1: an iteration whose sampled token decodes to text that is or contains
\* the end-of-sequence marker is the last one: its text is not printed, what
\* is on stdout is exactly what the earlier iterations printed, the program
\* has left the loop through the break (stop reason eos, also when this was
\* the last permitted iteration), and fewer than num_tokens fragments were
\* printed.
C1_EosStopsWithoutEmitting ==
    \A i \in 1..Len(trace) :
        HasEosText(trace[i]) =>
            /\ i = Len(trace)
            /\ ~trace[i].printed
            /\ stdout = TextsPrinted(SubSeq(trace, 1, i - 1))
            /\ pc = "stats"
            /\ broke
            /\ StopReason = "eos"
            /\ Len(stdout) < args.num_tokens

\* The marker arrives embedded in a longer text on the last permitted
\* iteration, after a fragment was printed.
C1_Witness ==
    /\ trace # <<>>
    /\ Len(trace) = args.num_tokens
    /\ trace[Len(trace)].next_token = Some(9)
    /\ StopReason = "eos"
    /\ Len(stdout) >= 1

\* C2: after N >= 1 completed iterations pos is the prompt length plus
\* N - 1; pos never decreases, and an iteration that completes advances it
\* by exactly the length of the chunk it fed to forward.
C2_CursorAtBoundary ==
    (index >= 1 /\ err # "tensor") => pos = Len(args.prompt) + (index - 1)

C2_CursorAdvance ==
    /\ pos' >= pos
    /\ index' = index + 1 =>
          /\ Len(cache') = Len(cache) + 1
          /\ pos' = pos + Len(cache'[Len(cache')].tokens)
    /\ index' = index => (pos' = pos \/ err' = "tensor")

C2_Cursor == [](C2_CursorAtBoundary) /\ [][C2_CursorAdvance]_vars

\* Two iterations have completed on a two-token prompt.
C2_Witness ==
    /\ index >= 2
    /\ Len(args.prompt) = 2
    /\ pos = Len(args.prompt) + index - 1

\* C3: the first forward call is given the full prompt, every later one
\* exactly the token sampled by the iteration before it, and each is given
\* as cursor the number of tokens fed by the calls before it; the same
\* holds of the chunk and cursor waiting for the next call.
C3_ChunkOf(i) ==
    IF i = 1 THEN args.prompt ELSE <<trace[i - 1].next_token[1]>>

C3_IncrementalFeed ==
    /\ \A i \in 1..Len(cache) :
          /\ cache[i].tokens = C3_ChunkOf(i)
          /\ cache[i].index_pos = Fed(i - 1)
          /\ i > 1 => Len(cache[i].tokens) = 1
    /\ pc = "loop" =>
          /\ tokens_tensor = C3_ChunkOf(Len(cache) + 1)
          /\ pos = Fed(Len(cache))

\* Three forward calls were made on a two-token prompt.
C3_Witness ==
    /\ Len(cache) >= 3
    /\ Len(args.prompt) = 2
    /\ cache[3].index_pos = 3

\* The value of pos left behind by each iteration, in order.
CursorProgression == [i \in 1..Len(trace) |-> trace[i].cursor]

\* The cursor given to each forward call, in order.
ForwardCursors == [i \in 1..Len(cache) |-> cache[i].index_pos]

\* The run of the example: prompt [5, 9], num_tokens 3, and the sampler
\* returning 7, then 7, then the end-of-sequence token 2.
C4_Scenario ==
    /\ args.prompt = <<5, 9>>
    /\ args.num_tokens = 3
    /\ Len(trace) = 3
    /\ trace[1].next_token = Some(7)
    /\ trace[2].next_token = Some(7)
    /\ trace[3].next_token = Some(2)

\* C4 as stated: in the example run two fragments are printed, the stop
\* reason is eos, and the cursor goes 2 -> 3 -> 4.
C4_Original ==
    C4_Scenario =>
        /\ stdout = <<Decode(7)[1], Decode(7)[1]>>
        /\ StopReason = "eos"
        /\ CursorProgression = <<2, 3, 4>>

\* C4 (amended): in the example run two fragments are printed, the stop
\* reason is eos, and the cursor goes 2 -> 3 and stays 3: the eos iteration
\* breaks before the cursor update, so 4 is never reached; the three
\* forward calls are given the cursors 0, 2, 3.
C4_Example ==
    C4_Scenario =>
        /\ stdout = <<Decode(7)[1], Decode(7)[1]>>
        /\ Len(stdout) = 2
        /\ StopReason = "eos"
        /\ CursorProgression = <<2, 3, 3>>
        /\ ForwardCursors = <<0, 2, 3>>
        /\ pos = 3

C4_Witness == C4_Scenario /\ pc = "stats"

\* C5: with num_tokens = 0 no iteration runs: no forward, penalty or sample
\* call is made, nothing is printed, and the loop is left at once by range
\* exhaustion (stop reason max-tokens), whatever the rest of the command
\* line is.
C5_ZeroTokens ==
    args.num_tokens = 0 =>
        /\ trace = <<>>
        /\ cache = <<>>
        /\ oracle = NoAnswers
        /\ stdout = <<>>
        /\ generated_tokens = 0
        /\ pc = "loop" => ENABLED LoopExit
        /\ pc # "loop" => StopReason = "max_tokens"

C5_Witness ==
    /\ args.num_tokens = 0
    /\ pc = "stats"
    /\ Len(args.prompt) = 2
    /\ args.repeat_penalty # Unit

\* The last min(Len(s), n) elements of s.
C6_Tail(s, n) ==
    LET m == IF n < Len(s) THEN n ELSE Len(s)
    IN  [j \in 1..m |-> s[Len(s) - m + j]]

\* C6: when repeat_penalty # 1.0, every iteration that gets past forward
\* gives the penalty function the same window, the last
\* min(prompt length, repeat_last_n) tokens of the original prompt, and the
\* sampler gets the penalised logits; when repeat_penalty = 1.0 the penalty
\* function is never called and the sampler gets the logits forward
\* returned.
C6_PenaltyWindow ==
    LET tail == C6_Tail(args.prompt, args.repeat_last_n)
    IN  \A i \in 1..Len(trace) :
          LET r == trace[i] IN
          IF args.repeat_penalty # Unit
          THEN r.outcome # "forward_err" =>
                 /\ r.context = Some(tail)
                 /\ Len(r.context[1]) <= args.repeat_last_n
                 /\ Len(r.context[1]) <= Len(args.prompt)
                 /\ (Len(r.context[1]) = args.repeat_last_n
                        \/ Len(r.context[1]) = Len(args.prompt))
                 /\ r.outcome # "penalty_err" =>
                      r.sampled_from =
                        Some([fwd |-> SubSeq(cache, 1, i),
                              pen |-> Some([penalty |-> args.repeat_penalty,
                                            context |-> tail])])
          ELSE /\ r.context = None
               /\ oracle.penalty = {}
               /\ r.outcome # "forward_err" =>
                      r.sampled_from = Some([fwd |-> SubSeq(cache, 1, i), pen |-> None])

\* The penalty is applied on a second iteration, with a window shorter
\* than the prompt, after a token was generated.
C6_Witness ==
    /\ args.repeat_penalty # Unit
    /\ args.repeat_last_n = 1
    /\ Len(args.prompt) = 2
    /\ Len(trace) >= 2
    /\ trace[2].context = Some(<<args.prompt[2]>>)
    /\ trace[2].sampled_from # None

Failures == {"forward_err", "penalty_err", "sample_err", "flush_err", "tensor_err"}

\* C7 as stated: the loop is left only with stop reason max-tokens or eos,
\* after at most num_tokens iterations.
C7_Original ==
    /\ Len(trace) <= args.num_tokens
    /\ pc # "loop" => StopReason \in {"max_tokens", "eos"}

C7_Ends ==
    /\ Len(trace) <= args.num_tokens
    /\ index <= args.num_tokens
    /\ pc # "loop" => ~ENABLED Next
    /\ StopReason \in {"none", "max_tokens", "eos", "error"}
    /\ StopReason \in {"none", "max_tokens"} =>
          /\ index = Len(trace)
          /\ \A i \in 1..Len(trace) : trace[i].outcome = "ok"
    /\ StopReason = "max_tokens" => index = args.num_tokens
    /\ StopReason = "eos" =>
          /\ trace # <<>>
          /\ trace[Len(trace)].outcome = "eos"
          /\ HasEosText(trace[Len(trace)])
    /\ StopReason = "error" =>
          /\ trace # <<>>
          /\ trace[Len(trace)].outcome \in Failures
          /\ err # "none"

\* C7 (amended): the loop always terminates, after at most num_tokens
\* iterations, and it ends in one of three ways: num_tokens iterations have
\* completed (max-tokens), a sampled token decoded to text that is or
\* contains the eos marker (eos), or a fallible call of the iteration
\* (forward, repeat penalty, sampler, stdout flush, tensor construction)
\* returned an error, which main returns to its caller.
C7_Termination == [](C7_Ends) /\ <>(pc # "loop")

\* The third way out: the sampler fails after a fragment was printed.
C7_Witness ==
    /\ pc = "err"
    /\ err = "sample"
    /\ Len(stdout) >= 1

\* C8: an iteration whose forward or sample call fails is the last one: the
\* program has returned the error, no action is enabled any more, each
\* iteration asked forward exactly once (no retry), the failing iteration
\* printed nothing and counted no token, and stdout holds exactly what the
\* earlier iterations printed.
C8_FailureAborts ==
    /\ Cardinality(oracle.forward) = Len(trace)
    /\ \A i \in 1..Len(trace) :
          trace[i].outcome \in {"forward_err", "sample_err"} =>
             /\ i = Len(trace)
             /\ pc = "err"
             /\ StopReason = "error"
             /\ err = (IF trace[i].outcome = "forward_err" THEN "forward" ELSE "sample")
             /\ ~ENABLED Next
             /\ ~trace[i].printed
             /\ trace[i].next_token = None
             /\ stdout = TextsPrinted(SubSeq(trace, 1, i - 1))
             /\ index = i - 1
             /\ generated_tokens = i - 1

\* forward fails on a later iteration, after fragments were printed.
C8_Witness ==
    /\ pc = "err"
    /\ err = "forward"
    /\ Len(stdout) >= 2

\* C9: the token sequence kept by the loop is the prompt followed by the
\* tokens generated so far: after k completed iterations it is k longer
\* than the tokenised prompt.
C9_TokenSequenceGrows ==
    pc # "err" => Len(prompt_tokens) = Len(args.prompt) + index

SuccessfulSamples == {a \in oracle.sample : a[2] # None}

\* Iteration i sampled a token whose decoding failed.
C11_Undecodable(i) == trace[i].next_token # None /\ trace[i].text = None

\* C11: generated_tokens is the number of sample calls that have returned a
\* token, and never exceeds num_tokens; it counts the token that ended the
\* generation by eos and every token whose decoding failed, so the number
\* of printed fragments is at most generated_tokens, and at most
\* generated_tokens - 1 after a stop by eos.  An iteration whose token does
\* not decode prints nothing and does not leave the loop by break or by a
\* decode error: it advances the cursor by the chunk it fed, and the next
\* forward call is fed exactly that token at the advanced cursor.
C11_GeneratedTokensCounter ==
    /\ generated_tokens = Cardinality(SuccessfulSamples)
    /\ generated_tokens = Cardinality({i \in 1..Len(trace) : trace[i].next_token # None})
    /\ generated_tokens <= args.num_tokens
    /\ Len(stdout) <= generated_tokens
    /\ StopReason = "eos" => Len(stdout) <= generated_tokens - 1
    /\ Len(stdout) + Cardinality({i \in 1..Len(trace) : C11_Undecodable(i)})
          + (IF StopReason = "eos" THEN 1 ELSE 0) = generated_tokens
    /\ \A i \in 1..Len(trace) :
          C11_Undecodable(i) =>
             /\ ~trace[i].printed
             /\ trace[i].outcome \in {"ok", "tensor_err"}
             /\ trace[i].cursor = trace[i].index_pos + Len(trace[i].input)
             /\ i = Len(trace) => pos = trace[i].cursor
             /\ (i = Len(trace) /\ trace[i].outcome = "ok") =>
                   /\ pc \in {"loop", "stats"}
                   /\ ~broke
                   /\ tokens_tensor = <<trace[i].next_token[1]>>
             /\ i < Len(trace) =>
                   /\ trace[i].outcome = "ok"
                   /\ trace[i + 1].input = <<trace[i].next_token[1]>>
                   /\ trace[i + 1].index_pos = trace[i].cursor

\* A token failed to decode, the loop went on and fed it to forward, a
\* fragment was printed, and the generation then stopped by eos: the
\* counter is two ahead of the fragments.
C11_Witness ==
    /\ StopReason = "eos"
    /\ Len(trace) = 3
    /\ \E i \in 1..2 : C11_Undecodable(i)
    /\ Len(stdout) = 1
    /\ generated_tokens = 3

====
